---- MODULE Spec2Model ----
(***************************************************************************)
(* localzone: the Zone/Record model of src/localzone/models.py, the        *)
(* Fletcher checksum of src/localzone/util.py and the load/save boundary   *)
(* of src/localzone/context.py.                                            *)
(*                                                                         *)
(* Texts are sequences of character codes (ord), so that the record text   *)
(* "{name} {ttl} {rdclass} {rdtype} {content}" and its checksum are        *)
(* computed as the code computes them.  A hashid is the sequence of the    *)
(* character codes of the lowercase hexadecimal digest.                    *)
(***************************************************************************)
EXTENDS Integers, Sequences, FiniteSets, TLC

VARIABLES zone, ttl, mutable, file, last, nops, scope, autosave, saves

vars == <<zone, ttl, mutable, file, last, nops, scope, autosave, saves>>

----------------------------------------------------------------------------
(* Bounds of the exploration.                                              *)

\* number of operations applied to one loaded zone
MaxOps == 2

----------------------------------------------------------------------------
(* Text helpers: what str.format, int() and str.split do on ASCII text.    *)

SP == <<32>>

QUOTE == <<34>>

\* ord("0") .. ord("9")
IsDigit(c) == c >= 48 /\ c <= 57

RECURSIVE Dec(_)
\* "{}".format(n) for an integer n >= 0
Dec(n) == IF n < 10 THEN <<48 + n>> ELSE Dec(n \div 10) \o <<48 + (n % 10)>>

RECURSIVE ParseDec(_, _)
\* int(text) for a text of digits, acc holding the value read so far
ParseDec(text, acc) ==
    IF text = <<>> THEN acc ELSE ParseDec(Tail(text), 10 * acc + (Head(text) - 48))

AllDigits(text) == text # <<>> /\ \A i \in 1..Len(text) : IsDigit(text[i])

RECURSIVE Split(_, _)
\* text.split(sep) for a one-character separator
Split(text, sep) ==
    IF \A i \in 1..Len(text) : text[i] # sep
    THEN <<text>>
    ELSE LET k == CHOOSE i \in 1..Len(text) :
                     text[i] = sep /\ \A j \in 1..(i - 1) : text[j] # sep
         IN  <<SubSeq(text, 1, k - 1)>> \o Split(SubSeq(text, k + 1, Len(text)), sep)

RECURSIVE Join(_, _)
\* sep.join(parts)
Join(parts, sep) ==
    IF parts = <<>> THEN <<>>
    ELSE IF Len(parts) = 1 THEN parts[1]
    ELSE parts[1] \o sep \o Join(Tail(parts), sep)

RECURSIVE Flatten(_)
\* the concatenation of a sequence of sequences (nested for-loops of a scan)
Flatten(ss) == IF ss = <<>> THEN <<>> ELSE Head(ss) \o Flatten(Tail(ss))

EndsWith(text, suffix) ==
    /\ Len(text) >= Len(suffix)
    /\ SubSeq(text, Len(text) - Len(suffix) + 1, Len(text)) = suffix

----------------------------------------------------------------------------
(* util.py: group, pack, checksum.                                         *)

\* the blocks of n items of word, the last one padded with padvalue
group(word, n, padvalue) ==
    [i \in 1..((Len(word) + n - 1) \div n) |->
        [j \in 1..n |-> IF (i - 1) * n + j <= Len(word)
                        THEN word[(i - 1) * n + j] ELSE padvalue]]

RECURSIVE pack(_)
\* little-endian: tup[i] << (i * 8), i counted from 0
pack(tup) == IF tup = <<>> THEN 0 ELSE Head(tup) + 256 * pack(Tail(tup))

RECURSIVE FletcherSums(_, _, _)
\* the loop "a += block; b += a" over the remaining blocks
FletcherSums(blocks, a, b) ==
    IF blocks = <<>> THEN <<a, b>>
    ELSE FletcherSums(Tail(blocks), a + Head(blocks), b + a + Head(blocks))

HexDigit(d) == IF d < 10 THEN 48 + d ELSE 87 + d

RECURSIVE Hex(_)
\* format(n, "x")
Hex(n) == IF n < 16 THEN <<HexDigit(n)>> ELSE Hex(n \div 16) \o <<HexDigit(n % 16)>>

RECURSIVE ZFill(_, _)
\* text.zfill(width)
ZFill(text, width) == IF Len(text) >= width THEN text ELSE ZFill(<<48>> \o text, width)

\* format((b << bits) | a, "x") for a < 2^bits: the digits of b followed by
\* the digits of a on bits/4 places, or the digits of a alone when b = 0
HexJoin(b, a, bits) == IF b = 0 THEN Hex(a) ELSE Hex(b) \o ZFill(Hex(a), bits \div 4)

RECURSIVE WideAdd(_, _, _)
\* x + y + carry for two integers written as sequences of 16-bit limbs of one
\* length, least significant first (Python integers have no width; the
\* 32-bit blocks and the sums of size 64 are kept in limbs)
WideAdd(x, y, carry) ==
    IF x = <<>> THEN <<>>
    ELSE <<(Head(x) + Head(y) + carry) % 65536>>
             \o WideAdd(Tail(x), Tail(y), (Head(x) + Head(y) + carry) \div 65536)

RECURSIVE WideSums(_, _, _)
\* the loop "a += block; b += a" over blocks of two limbs, a and b of four
WideSums(blocks, a, b) ==
    IF blocks = <<>> THEN <<a, b>>
    ELSE WideSums(Tail(blocks),
                  WideAdd(a, Head(blocks) \o <<0, 0>>, 0),
                  WideAdd(b, WideAdd(a, Head(blocks) \o <<0, 0>>, 0), 0))

\* a reduction that keeps the low 32 bits, x % 2 ** 32
WideMod_truncating(x) == <<x[1], x[2]>>

\* x % (2 ** 32 - 1) for x of four limbs: the sum of its two halves, the
\* carry added back, and 2 ** 32 - 1 itself taken to 0
WideMod(x) ==
    LET s == WideAdd(<<x[1], x[2], 0>>, <<x[3], x[4], 0>>, 0)
        r == WideAdd(<<s[1], s[2]>>, <<s[3], 0>>, 0)
    IN  IF r = <<65535, 65535>> THEN <<0, 0>> ELSE r

\* format(n, "x") for n of two limbs
WideHex(n) == HexJoin(n[2], n[1], 16)

\* format((b << 32) | a, "x") for a and b of two limbs
WideHexJoin(b, a) ==
    IF b = <<0, 0>> THEN WideHex(a) ELSE WideHex(b) \o ZFill(WideHex(a), 8)

\* a test of the size that lets the sizes below 16 through
checksum_raises_above_64(size) == size > 64

\* the test of the size that checksum makes first
checksum_raises(size) == size \notin {16, 32, 64}

checksum(word, size) ==
    IF size \notin {16, 32, 64} THEN "ValueError"
    ELSE LET bits == size \div 2
             block_size == bits \div 8
             grouped == group(word, block_size, 0)
         IN  IF size = 64
             THEN LET blocks == [i \in 1..Len(grouped) |->
                                    <<pack(SubSeq(grouped[i], 1, 2)),
                                      pack(SubSeq(grouped[i], 3, 4))>>]
                      ab == WideSums(blocks, <<0, 0, 0, 0>>, <<0, 0, 0, 0>>)
                  IN  ZFill(WideHexJoin(WideMod(ab[2]), WideMod(ab[1])), 4)
             ELSE LET modulus == 2 ^ bits - 1
                      blocks == IF size = 16 THEN word
                                ELSE [i \in 1..Len(grouped) |-> pack(grouped[i])]
                      ab == FletcherSums(blocks, 0, 0)
                  IN  ZFill(HexJoin(ab[2] % modulus, ab[1] % modulus, bits), 4)

----------------------------------------------------------------------------
(* The record-data codec and the names the zone store consumes             *)
(* (dns.name, dns.rdatatype, dns.rdata as add_record calls them).          *)

\* "example.com.", the origin the zone is loaded with
ORIGIN == <<101, 120, 97, 109, 112, 108, 101, 46, 99, 111, 109, 46>>

\* "@", the text of the zone's apex name
AT == <<64>>

\* ttl=None, the default of add_record's ttl parameter
None == -1

\* dns.name.from_text(name, origin) and, for a subdomain of the origin,
\* relativize(origin): the text of the resulting name
relativize(name) ==
    IF name = AT \/ name = <<>> THEN AT
    ELSE IF name[Len(name)] # 46 THEN name
    ELSE IF name = ORIGIN THEN AT
    ELSE IF EndsWith(name, <<46>> \o ORIGIN)
         THEN SubSeq(name, 1, Len(name) - Len(ORIGIN) - 1)
    ELSE name

\* an absolute name is outside the zone: find_node raises KeyError for it
is_subdomain(relname) == relname[Len(relname)] # 46

\* the type mnemonics the model knows
RdataTypes == {"SOA", "NS", "A", "TXT"}

\* str.upper() on the mnemonics used as inputs
Upper(t) ==
    CASE t = "soa" -> "SOA"
      [] t = "ns" -> "NS"
      [] t = "a" -> "A"
      [] t = "txt" -> "TXT"
      [] t = "any" -> "ANY"
      [] OTHER -> t

\* dns.rdatatype.from_text: case-insensitive, UnknownRdatatype otherwise
rdatatype_from_text(t) ==
    IF Upper(t) \in RdataTypes \/ Upper(t) = "ANY" THEN Upper(t) ELSE "UnknownRdatatype"

\* dns.rdatatype.to_text as a text
rdatatype_to_text(t) ==
    CASE t = "SOA" -> <<83, 79, 65>>
      [] t = "NS" -> <<78, 83>>
      [] t = "A" -> <<65>>
      [] t = "TXT" -> <<84, 88, 84>>
      [] OTHER -> <<63>>

\* dns.rdataclass.to_text(IN)
RDCLASS_IN == <<73, 78>>

\* dns.rdatatype.is_singleton
is_singleton(t) == t = "SOA"

\* the result of a failed dns.rdata.from_text
NoRdata == [rdtype |-> "SyntaxError", strs |-> <<>>, nums |-> <<>>]

\* one octet of a dotted quad: digits, at most 255, no leading zero
ValidOctet(part) ==
    /\ AllDigits(part)
    /\ Len(part) <= 3
    /\ (Len(part) > 1 => part[1] # 48)
    /\ ParseDec(part, 0) <= 255

\* "4294967295", the largest value of a 32-bit field of SOA record-data
UINT32_MAX == <<52, 50, 57, 52, 57, 54, 55, 50, 57, 53>>

RECURSIVE LeqDigits(_, _)
\* x <= y for two texts of digits of the same length
LeqDigits(x, y) ==
    IF x = <<>> THEN TRUE
    ELSE IF Head(x) # Head(y) THEN Head(x) < Head(y)
    ELSE LeqDigits(Tail(x), Tail(y))

\* Tokenizer.get_uint32: digits whose value is at most 4294967295
ValidUInt(tok) ==
    /\ AllDigits(tok)
    /\ \/ Len(tok) < Len(UINT32_MAX)
       \/ Len(tok) = Len(UINT32_MAX) /\ LeqDigits(tok, UINT32_MAX)

\* TXT strings given without quotes are separated at spaces and rendered
\* as "s1" "s2": the text between the outermost quotes is kept
TxtInner(content) ==
    IF Len(content) >= 2 /\ content[1] = 34 /\ content[Len(content)] = 34
    THEN SubSeq(content, 2, Len(content) - 1)
    ELSE Join(Split(content, 32), QUOTE \o SP \o QUOTE)

\* dns.rdata.from_text(rdclass, rdtype, content, origin)
rdata_from_text(rdtype, content) ==
    CASE rdtype = "A" ->
            LET parts == Split(content, 46)
            IN  IF Len(parts) = 4 /\ \A i \in 1..4 : ValidOctet(parts[i])
                THEN [rdtype |-> "A", strs |-> content, nums |-> <<>>]
                ELSE NoRdata
      [] rdtype = "NS" ->
            IF content = <<>> \/ content[1] = 34 \/ Len(Split(content, 32)) # 1
            THEN NoRdata
            ELSE [rdtype |-> "NS", strs |-> relativize(content), nums |-> <<>>]
      [] rdtype = "TXT" ->
            IF content = <<>> THEN NoRdata
            ELSE [rdtype |-> "TXT", strs |-> TxtInner(content), nums |-> <<>>]
      [] rdtype = "SOA" ->
            LET toks == Split(content, 32)
            IN  IF /\ Len(toks) = 7
                   /\ toks[1] # <<>> /\ toks[2] # <<>>
                   /\ \A i \in 3..7 : ValidUInt(toks[i])
                THEN [rdtype |-> "SOA",
                      strs |-> toks[1] \o SP \o toks[2],
                      nums |-> [i \in 1..5 |-> ParseDec(toks[i + 2], 0)]]
                ELSE NoRdata
      [] OTHER -> NoRdata

\* Rdata.to_text()
rdata_to_text(rd) ==
    CASE rd.rdtype = "A" -> rd.strs
      [] rd.rdtype = "NS" -> rd.strs
      [] rd.rdtype = "TXT" -> QUOTE \o rd.strs \o QUOTE
      [] rd.rdtype = "SOA" ->
            rd.strs \o SP \o Dec(rd.nums[1]) \o SP \o Dec(rd.nums[2]) \o SP
                \o Dec(rd.nums[3]) \o SP \o Dec(rd.nums[4]) \o SP \o Dec(rd.nums[5])
      [] OTHER -> <<>>

\* soa.rdata.serial
serial(rd) == rd.nums[1]

\* Rdata.replace(serial=s)
replace_serial(rd, s) == [rd EXCEPT !.nums[1] = s]

----------------------------------------------------------------------------
(* The inputs of the exploration.                                          *)

\* "192.0.2.1" and "192.0.2.2"
IP1 == <<49, 57, 50, 46, 48, 46, 50, 46, 49>>

IP2 == <<49, 57, 50, 46, 48, 46, 50, 46, 50>>

\* "abcdef" and "bbadff": as TXT strings at one name and TTL their record
\* texts have the same Fletcher-32 checksum
TXT1 == <<97, 98, 99, 100, 101, 102>>

TXT2 == <<98, 98, 97, 100, 102, 102>>

\* "abcdef" in quotes, the same TXT record-data as TXT1
TXT1Q == QUOTE \o TXT1 \o QUOTE

\* "qdxbfdcqdxa": the text of this TXT string at the apex with TTL 300 has
\* the Fletcher-32 checksum of the text of the loaded SOA record with TTL 300
TXT3 == <<113, 100, 120, 98, 102, 100, 99, 113, 100, 120, 97>>

TXT3Q == QUOTE \o TXT3 \o QUOTE

\* "ns", the name server of the zone
NS1 == <<110, 115>>

\* "ns root", the mname and rname of the SOA record-data
SOA_NAMES == <<110, 115, 32, 114, 111, 111, 116>>

\* the serial the loaded zone carries, the first revision of 2026-11-05
SerialAtLoad == 2026110500

\* SOA content with an earlier serial, as a caller may pass it
SOA_OLD == <<110, 115, 32, 114, 111, 111, 116, 32, 50, 48, 50, 54, 49, 49, 48, 52, 48, 48, 32, 54, 48, 32, 51, 48, 32, 57, 48, 32, 49, 48>>

\* the values strftime("%Y%m%d00") yields on 2026-11-05 and 2026-11-06
Candidates == {2026110500, 2026110600}

\* "deadbeef" is no record's hashid
DEADBEEF == <<100, 101, 97, 100, 98, 101, 101, 102>>

\* "a.example.com.", the absolute form of the name "a"
A_ABS == <<97, 46, 101, 120, 97, 109, 112, 108, 101, 46, 99, 111, 109, 46>>

NAME_A == <<97>>

NAME_B == <<98>>

\* the default TTL of the loaded zone ($TTL)
DefaultTTL == 3600

\* the arguments of the add_record calls explored
AddInputs ==
    {[name |-> A_ABS, rdtype |-> "A", content |-> IP2, ttl |-> None],
     [name |-> A_ABS, rdtype |-> "A", content |-> IP2, ttl |-> 0],
     [name |-> A_ABS, rdtype |-> "A", content |-> IP2, ttl |-> 7200],
     [name |-> A_ABS, rdtype |-> "txt", content |-> TXT2, ttl |-> None],
     [name |-> NAME_B, rdtype |-> "txt", content |-> TXT1Q, ttl |-> 300],
     [name |-> NAME_B, rdtype |-> "A", content |-> TXT1, ttl |-> None],
     [name |-> A_ABS, rdtype |-> "ERR", content |-> TXT1, ttl |-> None],
     [name |-> AT, rdtype |-> "TXT", content |-> TXT3Q, ttl |-> 300],
     [name |-> AT, rdtype |-> "SOA", content |-> SOA_OLD, ttl |-> None]}

\* the new contents of the update_record calls explored
UpdateContents == {IP2, TXT1Q, SOA_OLD}

SoaRdata(s) == [rdtype |-> "SOA", strs |-> SOA_NAMES, nums |-> <<s, 60, 30, 90, 10>>]

ARdata(ip) == [rdtype |-> "A", strs |-> ip, nums |-> <<>>]

TxtRdata(str) == [rdtype |-> "TXT", strs |-> str, nums |-> <<>>]

NsRdata(target) == [rdtype |-> "NS", strs |-> target, nums |-> <<>>]

\* the zones load() yields, with the SOA and NS records at the apex that
\* check_origin requires: record-sets whose TTL is the default TTL or another
\* one, nodes of one and of several record-sets, two TXT records of one
\* checksum, and a TXT record read before the SOA record with its checksum
LoadedZones ==
    {<<[name |-> AT, rdatasets |->
           <<[rdtype |-> "SOA", ttl |-> 3600, items |-> <<SoaRdata(SerialAtLoad)>>],
             [rdtype |-> "NS", ttl |-> 3600, items |-> <<NsRdata(NS1)>>],
             [rdtype |-> "A", ttl |-> 3600, items |-> <<ARdata(IP1)>>]>>],
       [name |-> NAME_A, rdatasets |->
           <<[rdtype |-> "TXT", ttl |-> 7200, items |-> <<TxtRdata(TXT1)>>]>>]>>,
     <<[name |-> AT, rdatasets |->
           <<[rdtype |-> "SOA", ttl |-> 300, items |-> <<SoaRdata(SerialAtLoad)>>],
             [rdtype |-> "NS", ttl |-> 300, items |-> <<NsRdata(NS1)>>]>>],
       [name |-> NAME_A, rdatasets |->
           <<[rdtype |-> "A", ttl |-> 3600, items |-> <<ARdata(IP1), ARdata(IP2)>>],
             [rdtype |-> "TXT", ttl |-> 3600,
              items |-> <<TxtRdata(TXT1), TxtRdata(TXT2)>>]>>]>>,
     <<[name |-> AT, rdatasets |->
           <<[rdtype |-> "TXT", ttl |-> 300, items |-> <<TxtRdata(TXT3)>>],
             [rdtype |-> "SOA", ttl |-> 300, items |-> <<SoaRdata(SerialAtLoad)>>],
             [rdtype |-> "NS", ttl |-> 300, items |-> <<NsRdata(NS1)>>]>>]>>}

----------------------------------------------------------------------------
(* models.py: Record.                                                      *)

\* Record.to_text(): "{name} {ttl} {rdclass} {rdtype} {content}"
to_text(name, rds_ttl, rd) ==
    name \o SP \o Dec(rds_ttl) \o SP \o RDCLASS_IN \o SP
        \o rdatatype_to_text(rd.rdtype) \o SP \o rdata_to_text(rd)

\* every record text the calls explored can build: the names, the TTLs and
\* the record-data of the loaded zones and of the inputs, with the serials
\* MaxOps saves and the save of manage() can reach
RecordTexts ==
    LET contents == {in.content : in \in AddInputs} \cup UpdateContents
        serials == {base + k : base \in Candidates \cup {SerialAtLoad},
                              k \in 0..(MaxOps + 1)}
        rdatas == {rdata_from_text(ty, c) : ty \in RdataTypes, c \in contents}
                  \cup {SoaRdata(n) : n \in serials}
                  \cup {rdata_from_text("TXT", rdata_to_text(SoaRdata(n))) : n \in serials}
                  \cup {ARdata(IP1), TxtRdata(TXT1), TxtRdata(TXT2), NsRdata(NS1)}
    IN  {to_text(n, t, rd) : n \in {AT, NAME_A, NAME_B},
                             t \in {300, 3600, 7200},
                             rd \in rdatas \ {NoRdata}}

\* checksum(text), size 32 by default, of each of these texts, computed once
Checksums == [w \in RecordTexts |-> checksum(w, 32)]

\* a hashid that is not made again when the serial of SOA record-data is
\* assigned: the checksum of the text with the serial read at load
hash_of_loaded_serial(name, rds_ttl, rd) ==
    Checksums[to_text(name, rds_ttl,
                      IF rd.rdtype = "SOA" THEN replace_serial(rd, SerialAtLoad) ELSE rd)]

\* Record.__hash__(): checksum(self.to_text())
hash(name, rds_ttl, rd) == Checksums[to_text(name, rds_ttl, rd)]

\* Record.__init__: the view of record-data rd of the record-set at position
\* si of the node at position ni, with the hashid made at construction
Record(name, ni, si, rds, rd) ==
    [hashid |-> hash(name, rds.ttl, rd),
     name |-> name,
     ttl |-> rds.ttl,
     rdtype |-> rd.rdtype,
     rdata |-> rd,
     node |-> ni,
     rdataset |-> si]

\* "no record": what next(..., None) yields when nothing matches
NoRecord ==
    [hashid |-> <<>>, name |-> <<>>, ttl |-> 0, rdtype |-> "",
     rdata |-> NoRdata, node |-> 0, rdataset |-> 0]

\* Record.content
content_of(r) == rdata_to_text(r.rdata)

\* Record.to_text() of a view
record_text(r) == to_text(r.name, r.ttl, r.rdata)

----------------------------------------------------------------------------
(* models.py: Zone, the readers.                                           *)

\* the records of one node, record-set by record-set
NodeRecords(z, ni) ==
    Flatten([si \in 1..Len(z[ni].rdatasets) |->
        [ri \in 1..Len(z[ni].rdatasets[si].items) |->
            Record(z[ni].name, ni, si, z[ni].rdatasets[si],
                   z[ni].rdatasets[si].items[ri])]])

\* Zone.get_records(rdtype)
get_records(z, rdtype) ==
    LET all == Flatten([ni \in 1..Len(z) |-> NodeRecords(z, ni)])
        Match(r) == r.rdtype = rdatatype_from_text(rdtype) \/ Upper(rdtype) = "ANY"
    IN  SelectSeq(all, Match)

\* Zone.records
records(z) == get_records(z, "ANY")

\* find_record with the name compared as the caller wrote it
find_record_without_relativize(z, rdtype, name, content) ==
    LET wanted == IF Upper(rdtype) = "TXT" /\ content # <<>>
                  THEN QUOTE \o content \o QUOTE ELSE content
        Match(r) == \/ r.name = name /\ content_of(r) = wanted
                    \/ r.name = name /\ wanted = <<>>
                    \/ content_of(r) = wanted /\ name = <<>>
                    \/ name = <<>> /\ wanted = <<>>
    IN  SelectSeq(get_records(z, rdtype), Match)

\* Zone.find_record(rdtype, name, content); <<>> stands for None and for "",
\* which the tests "if name", "not name", "content" and "not content" treat
\* alike
find_record(z, rdtype, name, content) ==
    LET relname == IF name # <<>> THEN relativize(name) ELSE name
        wanted == IF Upper(rdtype) = "TXT" /\ content # <<>>
                  THEN QUOTE \o content \o QUOTE ELSE content
        Match(r) == \/ r.name = relname /\ content_of(r) = wanted
                    \/ r.name = relname /\ wanted = <<>>
                    \/ content_of(r) = wanted /\ relname = <<>>
                    \/ relname = <<>> /\ wanted = <<>>
    IN  SelectSeq(get_records(z, rdtype), Match)

RECURSIVE first_match(_, _)
\* next((r for r in rs if r.hashid == hashid), None)
first_match(rs, hashid) ==
    IF rs = <<>> THEN NoRecord
    ELSE IF Head(rs).hashid = hashid THEN Head(rs)
    ELSE first_match(Tail(rs), hashid)

\* get_record with the scan starting one record late (self.records[1:])
get_record_skipping_first(z, hashid) == first_match(Tail(records(z)), hashid)

\* Zone.get_record(hashid): the first record of the scan with that hashid;
\* NoRecord stands for the KeyError
get_record(z, hashid) == first_match(records(z), hashid)

\* Zone.soa: get_records("soa")[0]; NoRecord stands for the IndexError
first_or_none(rs) == IF rs = <<>> THEN NoRecord ELSE rs[1]

soa(z) == first_or_none(get_records(z, "soa"))

----------------------------------------------------------------------------
(* The containers of dns.zone.Zone the writers call: nodes in insertion    *)
(* order, each a list of record-sets, each an ordered set of record-data   *)
(* with one TTL.                                                           *)

RemoveAt(s, i) == SubSeq(s, 1, i - 1) \o SubSeq(s, i + 1, Len(s))

\* the position of the node of that name, 0 when there is none
NodeIndex(z, name) ==
    IF \E i \in 1..Len(z) : z[i].name = name
    THEN CHOOSE i \in 1..Len(z) : z[i].name = name
    ELSE 0

\* the position of the record-set of that type in a node, 0 when none
RdsIndex(node, rdtype) ==
    IF \E i \in 1..Len(node.rdatasets) : node.rdatasets[i].rdtype = rdtype
    THEN CHOOSE i \in 1..Len(node.rdatasets) : node.rdatasets[i].rdtype = rdtype
    ELSE 0

\* Zone.find_node(name, create=True)
find_node(z, name) ==
    IF NodeIndex(z, name) # 0 THEN z
    ELSE Append(z, [name |-> name, rdatasets |-> <<>>])

\* Zone.find_rdataset(name, rdtype, create=True) on a zone that has the node
find_rdataset(z, name, rdtype) ==
    LET ni == NodeIndex(z, name)
    IN  IF RdsIndex(z[ni], rdtype) # 0 THEN z
        ELSE [z EXCEPT ![ni].rdatasets =
                  Append(@, [rdtype |-> rdtype, ttl |-> 0, items |-> <<>>])]

\* Rdataset.update_ttl(ttl)
update_ttl(rds, t) ==
    IF Len(rds.items) = 0 THEN [rds EXCEPT !.ttl = t]
    ELSE IF t < rds.ttl THEN [rds EXCEPT !.ttl = t]
    ELSE rds

\* Rdataset.add(rd, ttl): the TTL first, a singleton type replaces what the
\* set holds, and a set holds equal record-data once
rdataset_add(rds, rd, t) ==
    LET r1 == update_ttl(rds, t)
        r2 == IF is_singleton(rd.rdtype) /\ Len(r1.items) > 0
              THEN [r1 EXCEPT !.items = <<>>] ELSE r1
    IN  IF \E i \in 1..Len(r2.items) : r2.items[i] = rd THEN r2
        ELSE [r2 EXCEPT !.items = Append(@, rd)]

\* Rdataset.remove that drops the first item whatever rd is
rdataset_remove_first(rds, rd) == [rds EXCEPT !.items = Tail(@)]

\* Rdataset.remove(rd)
rdataset_remove(rds, rd) ==
    LET Keep(x) == x # rd
    IN  [rds EXCEPT !.items = SelectSeq(@, Keep)]

\* Zone.delete_node(name)
delete_node(z, name) ==
    IF NodeIndex(z, name) = 0 THEN z ELSE RemoveAt(z, NodeIndex(z, name))

\* Zone.delete_rdataset(name, rdtype): the node goes with its last record-set
delete_rdataset(z, name, rdtype) ==
    LET ni == NodeIndex(z, name)
    IN  IF ni = 0 THEN z
        ELSE LET si == RdsIndex(z[ni], rdtype)
                 z1 == IF si = 0 THEN z
                       ELSE [z EXCEPT ![ni].rdatasets = RemoveAt(@, si)]
             IN  IF Len(z1[ni].rdatasets) = 0 THEN delete_node(z1, name) ELSE z1

----------------------------------------------------------------------------
(* models.py: Zone, the writers.  Each yields the zone after the call, the *)
(* error the call raised ("" when it returned) and the record it returned. *)

Returned(z, r) == [zone |-> z, err |-> "", rec |-> r]

Raised(z, e) == [zone |-> z, err |-> e, rec |-> NoRecord]

\* add_record that gets or creates the node and the record-set before it
\* parses the content
add_record_creating_first(z, dflt, name, rdtype, content, t) ==
    LET nm == relativize(name)
        ty == rdatatype_from_text(rdtype)
        tt == IF t = None \/ t = 0 THEN dflt ELSE t
        rdata == rdata_from_text(ty, content)
    IN  IF ty = "UnknownRdatatype" THEN Raised(z, "UnknownRdatatype")
        ELSE IF ~is_subdomain(nm) THEN Raised(z, "KeyError")
        ELSE LET z1 == find_node(z, nm)
                 z2 == find_rdataset(z1, nm, ty)
                 ni == NodeIndex(z2, nm)
                 si == RdsIndex(z2[ni], ty)
                 rds == rdataset_add(z2[ni].rdatasets[si], rdata, tt)
                 z3 == [z2 EXCEPT ![ni].rdatasets[si] = rds]
             IN  IF rdata = NoRdata THEN Raised(z2, "SyntaxError")
                 ELSE Returned(z3, Record(nm, ni, si, rds, rdata))

\* Zone.add_record(name, rdtype, content, ttl=t) in a zone of default TTL dflt
add_record(z, dflt, name, rdtype, content, t) ==
    LET nm == relativize(name)
        ty == rdatatype_from_text(rdtype)
        tt == IF t = None \/ t = 0 THEN dflt ELSE t
        rdata == rdata_from_text(ty, content)
    IN  IF ty = "UnknownRdatatype" THEN Raised(z, "UnknownRdatatype")
        ELSE IF rdata = NoRdata THEN Raised(z, "SyntaxError")
        ELSE IF ~is_subdomain(nm) THEN Raised(z, "KeyError")
        ELSE LET z1 == find_node(z, nm)
                 z2 == find_rdataset(z1, nm, ty)
                 ni == NodeIndex(z2, nm)
                 si == RdsIndex(z2[ni], ty)
                 rds == rdataset_add(z2[ni].rdatasets[si], rdata, tt)
                 z3 == [z2 EXCEPT ![ni].rdatasets[si] = rds]
             IN  Returned(z3, Record(nm, ni, si, rds, rdata))

\* remove_record whose cascade deletes the node as soon as the record-set is
\* empty, without the test len(node) == 1
remove_found_dropping_node(z, record, cascade) ==
    LET ni == record.node
        si == record.rdataset
        rds == rdataset_remove(z[ni].rdatasets[si], record.rdata)
        z1 == [z EXCEPT ![ni].rdatasets[si] = rds]
    IN  IF ~cascade THEN z1
        ELSE IF Len(rds.items) = 0 THEN delete_node(z1, record.name)
        ELSE z1

\* Zone.remove_record, lines 221-233: the removal of the record-data of the
\* record found, and the cascade
remove_found(z, record, cascade) ==
    LET ni == record.node
        si == record.rdataset
        rds == rdataset_remove(z[ni].rdatasets[si], record.rdata)
        z1 == [z EXCEPT ![ni].rdatasets[si] = rds]
    IN  IF ~cascade THEN z1
        ELSE IF Len(rds.items) = 0 /\ Len(z1[ni].rdatasets) = 1
             THEN delete_node(z1, record.name)
        ELSE IF Len(rds.items) = 0
             THEN delete_rdataset(z1, record.name, record.rdtype)
        ELSE z1

\* remove_record that returns when the hashid is not found
remove_outcome_silent(z, record, cascade) ==
    IF record = NoRecord THEN Returned(z, NoRecord)
    ELSE Returned(remove_found(z, record, cascade), NoRecord)

\* the outcome of remove_record once get_record has answered
remove_outcome(z, record, cascade) ==
    IF record = NoRecord THEN Raised(z, "KeyError")
    ELSE Returned(remove_found(z, record, cascade), NoRecord)

\* remove_record that cascades whatever its argument says
remove_record_cascading(z, hashid, cascade) == remove_outcome(z, get_record(z, hashid), TRUE)

\* Zone.remove_record(hashid, cascade)
remove_record(z, hashid, cascade) == remove_outcome(z, get_record(z, hashid), cascade)

\* update_record that adds the new record and leaves the old one in place
update_outcome_keeping_old(z, dflt, record, content) ==
    IF record = NoRecord THEN Raised(z, "KeyError")
    ELSE add_record(z, dflt, record.name, record.rdtype, content, None)

\* the outcome of update_record once get_record has answered
update_outcome(z, dflt, record, content) ==
    IF record = NoRecord THEN Raised(z, "KeyError")
    ELSE add_record(remove_found(z, record, FALSE), dflt,
                    record.name, record.rdtype, content, None)

\* Zone.update_record(hashid, content): get_record, remove_record without
\* cascade (which resolves the hashid again, to the same record), add_record
update_record(z, dflt, hashid, content) ==
    update_outcome(z, dflt, get_record(z, hashid), content)

\* the position of record-data rd in a record-set
ItemIndex(rds, rd) == CHOOSE i \in 1..Len(rds.items) : rds.items[i] = rd

\* _increment_serial that takes the candidate of the clock as it is, without
\* the comparison with the current serial
increment_outcome_from_clock(z, dflt, mut, candidate, s) ==
    IF s = NoRecord THEN Raised(z, "IndexError")
    ELSE IF mut
         THEN Returned([z EXCEPT ![s.node].rdatasets[s.rdataset].items[
                                ItemIndex(z[s.node].rdatasets[s.rdataset], s.rdata)] =
                            replace_serial(@, candidate)],
                       NoRecord)
    ELSE update_record(z, dflt, s.hashid,
             rdata_to_text(replace_serial(s.rdata, candidate)))

\* Zone._increment_serial() once self.soa has answered with s
increment_outcome(z, dflt, mut, candidate, s) ==
    IF s = NoRecord THEN Raised(z, "IndexError")
    ELSE IF mut
         THEN Returned([z EXCEPT ![s.node].rdatasets[s.rdataset].items[
                                ItemIndex(z[s.node].rdatasets[s.rdataset], s.rdata)] =
                            replace_serial(@, IF candidate <= serial(s.rdata)
                                              THEN serial(s.rdata) + 1 ELSE candidate)],
                       NoRecord)
    ELSE update_record(z, dflt, s.hashid,
             rdata_to_text(replace_serial(s.rdata,
                 IF candidate <= serial(s.rdata)
                 THEN serial(s.rdata) + 1 ELSE candidate)))

\* Zone._increment_serial() when strftime("%Y%m%d00") reads candidate; with
\* mutable record-data the serial is assigned in place, otherwise the
\* assignment raises TypeError and the SOA record is updated
increment_serial(z, dflt, mut, candidate) ==
    increment_outcome(z, dflt, mut, candidate, soa(z))

\* Zone.to_file(filename): one line per record of every non-empty record-set
to_file(z) ==
    LET rs == records(z)
    IN  [i \in 1..Len(rs) |-> record_text(rs[i])]

\* what save leaves once the serial step has ended with outcome inc
save_outcome(inc, f) ==
    [zone |-> inc.zone, err |-> inc.err,
     file |-> IF inc.err = "" THEN to_file(inc.zone) ELSE f]

\* Zone.save(autoserial): the zone after the call, the error raised and
\* the text the destination holds
save(z, dflt, mut, f, autoserial, candidate) ==
    save_outcome(IF autoserial THEN increment_serial(z, dflt, mut, candidate)
                 ELSE Returned(z, NoRecord), f)

----------------------------------------------------------------------------
(* The calls of the exploration.                                           *)

\* the hashids a caller may hold: those of the zone's records and a stale one
Hashids(z) ==
    LET rs == records(z)
    IN  {rs[i].hashid : i \in 1..Len(rs)} \cup {DEADBEEF}

----------------------------------------------------------------------------
(* The state machine: one zone, loaded once, then operated on by a single  *)
(* caller.  last records the latest call: its arguments, the zone and the  *)
(* file before it, the error it raised and the record it returned.  scope  *)
(* tells how the caller holds the zone: "load" when it called load(),      *)
(* "with" inside the body of a manage() scope, "returned" and "raised"     *)
(* once that body was left, "failed" when the load of manage() raised,     *)
(* "util" when the caller holds no zone and calls checksum() itself;       *)
(* autosave is the argument of manage() and saves counts the zone.save()   *)
(* calls manage() made.                                                    *)

Call(op) ==
    [op |-> op, hashid |-> <<>>, name |-> <<>>, rdtype |-> "", content |-> <<>>,
     ttl |-> None, cascade |-> FALSE, autoserial |-> FALSE, candidate |-> 0,
     size |-> 32, err |-> "", rec |-> NoRecord, found |-> <<>>, pre |-> <<>>]

\* context.load(): the zone, its default TTL, the file it was read from
Init ==
    /\ zone \in LoadedZones
    /\ ttl = DefaultTTL
    /\ mutable \in BOOLEAN
    /\ file = to_file(zone)
    /\ last = Call("load")
    /\ nops = 0
    /\ scope = "load"
    /\ autosave = FALSE
    /\ saves = 0

\* a caller applies at most MaxOps calls to the loaded zone
GetRecord ==
    /\ nops < MaxOps
    /\ scope \in {"load", "with"}
    /\ \E h \in Hashids(zone) :
      \E rec \in {get_record(zone, h)} :
        /\ last' = [Call("get_record") EXCEPT
                        !.hashid = h, !.pre = zone, !.rec = rec,
                        !.err = IF rec = NoRecord THEN "KeyError" ELSE ""]
        /\ nops' = nops + 1
        /\ UNCHANGED <<zone, ttl, mutable, file, scope, autosave, saves>>

AddRecord ==
    /\ nops < MaxOps
    /\ scope \in {"load", "with"}
    /\ \E in \in AddInputs :
      \E res \in {add_record(zone, ttl, in.name, in.rdtype, in.content, in.ttl)} :
            /\ zone' = res.zone
            /\ last' = [Call("add_record") EXCEPT
                            !.name = in.name, !.rdtype = in.rdtype,
                            !.content = in.content, !.ttl = in.ttl,
                            !.pre = zone, !.err = res.err, !.rec = res.rec]
            /\ nops' = nops + 1
            /\ UNCHANGED <<ttl, mutable, file, scope, autosave, saves>>

\* last.rec is the record the hashid resolved to before the removal
RemoveRecord ==
    /\ nops < MaxOps
    /\ scope \in {"load", "with"}
    /\ \E h \in Hashids(zone), cascade \in BOOLEAN :
      \E rec \in {get_record(zone, h)} :
      \E res \in {remove_record(zone, h, cascade)} :
            /\ zone' = res.zone
            /\ last' = [Call("remove_record") EXCEPT
                            !.hashid = h, !.cascade = cascade, !.pre = zone,
                            !.err = res.err, !.rec = rec]
            /\ nops' = nops + 1
            /\ UNCHANGED <<ttl, mutable, file, scope, autosave, saves>>

UpdateRecord ==
    /\ nops < MaxOps
    /\ scope \in {"load", "with"}
    /\ \E h \in Hashids(zone), content \in UpdateContents :
      \E res \in {update_record(zone, ttl, h, content)} :
            /\ zone' = res.zone
            /\ last' = [Call("update_record") EXCEPT
                            !.hashid = h, !.content = content, !.pre = zone,
                            !.err = res.err, !.rec = res.rec]
            /\ nops' = nops + 1
            /\ UNCHANGED <<ttl, mutable, file, scope, autosave, saves>>

\* the clock is read by the save: any of the candidates, whatever the
\* previous save read
Save ==
    /\ nops < MaxOps
    /\ scope \in {"load", "with"}
    /\ \E autoserial \in BOOLEAN, candidate \in Candidates :
      \E res \in {save(zone, ttl, mutable, file, autoserial, candidate)} :
            /\ zone' = res.zone
            /\ file' = res.file
            /\ last' = [Call("save") EXCEPT
                            !.autoserial = autoserial, !.candidate = candidate,
                            !.pre = zone, !.err = res.err]
            /\ nops' = nops + 1
            /\ UNCHANGED <<ttl, mutable, scope, autosave, saves>>

Next == GetRecord \/ AddRecord \/ RemoveRecord \/ UpdateRecord \/ Save

Spec == Init /\ [][Next]_vars

----------------------------------------------------------------------------
(* context.py: manage(filename, origin, autosave), the scope around a      *)
(* loaded zone.                                                            *)

\* the exit of manage() that saves from the code after the yield, which an
\* error raised in the body skips
manage_exit_after_yield(raised, auto, z, dflt, mut, f, candidate) ==
    IF auto /\ ~raised
    THEN save(z, dflt, mut, f, TRUE, candidate) @@ [saves |-> 1]
    ELSE [zone |-> z, err |-> "", file |-> f, saves |-> 0]

\* the finally clause of manage(): zone.save() when autosave, whether the
\* body returned or raised; save() is called with its defaults, the file
\* the zone was loaded from and autoserial=True
manage_exit(raised, auto, z, dflt, mut, f, candidate) ==
    IF auto
    THEN save(z, dflt, mut, f, TRUE, candidate) @@ [saves |-> 1]
    ELSE [zone |-> z, err |-> "", file |-> f, saves |-> 0]

\* manage(): load() returned the zone and the body of the with statement is
\* entered, or load() raised and nothing follows
ManageInit ==
    /\ autosave \in BOOLEAN
    /\ ttl = DefaultTTL
    /\ mutable \in BOOLEAN
    /\ last = Call("load")
    /\ nops = 0
    /\ saves = 0
    /\ \/ scope = "with" /\ zone \in LoadedZones /\ file = to_file(zone)
       \/ scope = "failed" /\ zone = <<>> /\ file = <<>>

\* the body of the with statement completes
ExitNormally ==
    /\ scope = "with"
    /\ \E candidate \in Candidates :
      \E res \in {manage_exit(FALSE, autosave, zone, ttl, mutable, file, candidate)} :
            /\ zone' = res.zone
            /\ file' = res.file
            /\ saves' = saves + res.saves
            /\ scope' = "returned"
            /\ UNCHANGED <<ttl, mutable, last, nops, autosave>>

\* the body of the with statement lets the error of its latest call escape
ExitByError ==
    /\ scope = "with"
    /\ last.err # ""
    /\ \E candidate \in Candidates :
      \E res \in {manage_exit(TRUE, autosave, zone, ttl, mutable, file, candidate)} :
            /\ zone' = res.zone
            /\ file' = res.file
            /\ saves' = saves + res.saves
            /\ scope' = "raised"
            /\ UNCHANGED <<ttl, mutable, last, nops, autosave>>

ManageNext ==
    \/ GetRecord \/ AddRecord \/ RemoveRecord \/ UpdateRecord \/ Save
    \/ ExitNormally \/ ExitByError

ManageSpec == ManageInit /\ [][ManageNext]_vars

----------------------------------------------------------------------------
(* models.py: find_record called on a loaded zone and between the         *)
(* add_record calls made on it.                                            *)

FindTypes == {"ANY", "A", "TXT", "txt", "SOA"}

FindNames == {<<>>, AT, NAME_A, A_ABS, NAME_B}

FindContents == {<<>>, IP1, IP2, TXT1, TXT1Q}

FindRecord ==
    /\ scope = "load"
    /\ nops < MaxOps
    /\ \E rdtype \in FindTypes, name \in FindNames, content \in FindContents :
         last' = [Call("find_record") EXCEPT
                      !.rdtype = rdtype, !.name = name, !.content = content,
                      !.pre = zone,
                      !.found = find_record(zone, rdtype, name, content)]
    /\ nops' = nops + 1
    /\ UNCHANGED <<zone, ttl, mutable, file, scope, autosave, saves>>

FindNext == FindRecord \/ AddRecord

FindSpec == Init /\ [][FindNext]_vars

----------------------------------------------------------------------------
(* util.py: checksum(word, size) called by itself, on the words over a     *)
(* small alphabet and on sizes inside and outside [16, 32, 64].            *)

\* the longest word
MaxWordLen == 5

\* ord() of the characters of the test vector "abcde", and 255, the byte
\* that fills a block up to the modulus
Alphabet == {97, 98, 99, 100, 101, 255}

Words == UNION {[1..n -> Alphabet] : n \in 0..MaxWordLen}

\* "abcde", the word of the test vectors
WORD == <<97, 98, 99, 100, 101>>

Sizes == {8, 16, 32, 64, 128}

\* a caller about to call checksum(word, size)
ChecksumInit ==
    /\ \E word \in Words, size \in Sizes :
           last = [Call("checksum") EXCEPT !.content = word, !.size = size]
    /\ zone = <<>>
    /\ ttl = DefaultTTL
    /\ mutable = FALSE
    /\ file = <<>>
    /\ nops = 0
    /\ scope = "util"
    /\ autosave = FALSE
    /\ saves = 0

\* the call: last.hashid is the digest returned, last.err the error raised
Checksum ==
    /\ scope = "util"
    /\ nops = 0
    /\ last' = [last EXCEPT
                   !.err = IF checksum_raises(last.size) THEN "ValueError" ELSE "",
                   !.hashid = IF checksum_raises(last.size) THEN <<>>
                              ELSE checksum(last.content, last.size)]
    /\ nops' = 1
    /\ UNCHANGED <<zone, ttl, mutable, file, scope, autosave, saves>>

ChecksumNext == Checksum

ChecksumSpec == ChecksumInit /\ [][ChecksumNext]_vars

----------------------------------------------------------------------------
(* The claims.  zone is the zone after the latest call, last.pre the zone  *)
(* before it.                                                              *)

\* h resolves in z
Resolves(z, h) == get_record(z, h) # NoRecord

\* the texts of the records of z
Texts(z) == UNION {{record_text(rs[i]) : i \in 1..Len(rs)} : rs \in {records(z)}}

\* no two records of z with different texts have the same checksum
NoCollision(z) ==
    LET rs == records(z)
    IN  \A i, j \in 1..Len(rs) :
            rs[i].hashid = rs[j].hashid => record_text(rs[i]) = record_text(rs[j])

\* C1 as stated: in every state reachable by load and any calls, for every
\* record r of get_records("ANY"), get_record(r.hashid) succeeds and returns
\* a record whose to_text() is r.to_text().
C1_AsStated ==
    LET rs == records(zone)
    IN  \A i \in 1..Len(rs) :
            /\ Resolves(zone, rs[i].hashid)
            /\ record_text(get_record(zone, rs[i].hashid)) = record_text(rs[i])

\* C1 amended: for every record r of get_records("ANY"), get_record(r.hashid)
\* succeeds and returns a record of hashid r.hashid; its to_text() is
\* r.to_text() provided no record of the zone with another text has the same
\* checksum, and it is the first record of the scan with that hashid otherwise.
C1_Lookup ==
    \A rs \in {records(zone)} :
        \A i \in 1..Len(rs) :
            LET g == get_record(zone, rs[i].hashid)
            IN  /\ g # NoRecord
                /\ g.hashid = rs[i].hashid
                /\ \A j \in 1..(i - 1) : rs[j].hashid = rs[i].hashid => g # rs[i]
                /\ (\A j \in 1..Len(rs) : rs[j].hashid = rs[i].hashid
                        => record_text(rs[j]) = record_text(rs[i]))
                   => record_text(g) = record_text(rs[i])

\* C1 witness: after an add_record and a save that bumped the serial, the SOA
\* record and the added record are found under the hashids of their texts.
C1_Witness ==
    /\ nops = 2
    /\ last.op = "save" /\ last.autoserial /\ last.err = ""
    /\ NodeIndex(zone, NAME_B) # 0
    /\ Resolves(zone, hash(NAME_B, 300, TxtRdata(TXT1)))
    /\ soa(zone).hashid # soa(last.pre).hashid
    /\ record_text(get_record(zone, soa(zone).hashid)) = record_text(soa(zone))
    /\ NoCollision(zone)

\* C2 as stated: after remove_record(h) returned, for a resolvable h and
\* either cascade, get_record(h) fails with KeyError.
C2_AsStated ==
    (last.op = "remove_record" /\ last.err = "") => ~Resolves(zone, last.hashid)

\* C2 amended: after remove_record(h) returned, the removed record's text is
\* no longer in the zone, and get_record(h) fails with KeyError unless another
\* record of the zone, of a different text, has the same checksum, in which
\* case get_record(h) returns that record.
C2_Removed ==
    (last.op = "remove_record" /\ last.err = "") =>
        LET rs == records(last.pre)
            removed == get_record(last.pre, last.hashid)
            others == {i \in 1..Len(rs) : rs[i].hashid = last.hashid /\ rs[i] # removed}
        IN  /\ removed # NoRecord
            /\ record_text(removed) \notin Texts(zone)
            /\ Resolves(zone, last.hashid) <=> others # {}
            /\ Resolves(zone, last.hashid) =>
                   record_text(get_record(zone, last.hashid)) # record_text(removed)

\* C2 witness: a record of a record-set of two records was removed, and its
\* hashid no longer resolves.
C2_Witness ==
    /\ last.op = "remove_record" /\ last.err = ""
    /\ Len(last.pre[last.rec.node].rdatasets[last.rec.rdataset].items) = 2
    /\ NoCollision(last.pre)
    /\ ~Resolves(zone, last.hashid)

\* C3: after remove_record(h, cascade=True) returned: when the removed record
\* was the only record of the only record-set of its node, the node is gone;
\* when it was the only record of its record-set and the node holds other
\* record-sets, that record-set is gone and the node holds exactly its other
\* record-sets, unchanged; when the record-set held other records, the node
\* and the record-set remain, the record-set without the removed record.
C3_Cascade ==
    (last.op = "remove_record" /\ last.cascade /\ last.err = "") =>
        LET r == last.rec
            node == last.pre[r.node]
            rds == node.rdatasets[r.rdataset]
            ni == NodeIndex(zone, r.name)
        IN  IF Len(rds.items) = 1 /\ Len(node.rdatasets) = 1
            THEN \A i \in 1..Len(zone) : zone[i].name # r.name
            ELSE IF Len(rds.items) = 1
            THEN /\ ni # 0
                 /\ RdsIndex(zone[ni], r.rdtype) = 0
                 /\ Len(zone[ni].rdatasets) = Len(node.rdatasets) - 1
                 /\ \A s \in 1..Len(node.rdatasets) : s # r.rdataset =>
                        \E t \in 1..Len(zone[ni].rdatasets) :
                            zone[ni].rdatasets[t] = node.rdatasets[s]
            ELSE /\ ni # 0
                 /\ Len(zone[ni].rdatasets) = Len(node.rdatasets)
                 /\ RdsIndex(zone[ni], r.rdtype) # 0
                 /\ LET after == zone[ni].rdatasets[RdsIndex(zone[ni], r.rdtype)]
                    IN  /\ after.items # <<>>
                        /\ Len(after.items) = Len(rds.items) - 1
                        /\ \A k \in 1..Len(after.items) : after.items[k] # r.rdata

\* C3 witness: the only record of a record-set was removed with cascade from
\* a node of two record-sets, and the node is still there with the other one.
C3_Witness ==
    /\ last.op = "remove_record" /\ last.cascade /\ last.err = ""
    /\ Len(last.pre[last.rec.node].rdatasets) = 2
    /\ Len(last.pre[last.rec.node].rdatasets[last.rec.rdataset].items) = 1
    /\ NodeIndex(zone, last.rec.name) # 0
    /\ Len(zone[NodeIndex(zone, last.rec.name)].rdatasets) = 1

\* a record of z has a text other than text whose checksum is h
Collides(z, h, text) == \E t \in Texts(z) : t # text /\ Checksums[t] = h

\* C4 as stated: after update_record(h, c) returned, for a resolvable h and a
\* valid content c, the returned record's hashid differs from h and
\* get_record(h) fails with KeyError.
C4_AsStated ==
    (last.op = "update_record" /\ last.err = "") =>
        /\ last.rec.hashid # last.hashid
        /\ ~Resolves(zone, last.hashid)

\* C4 amended: after update_record(h, c) returned, when the returned record's
\* text is the text of the record h resolved to, the returned hashid is h and
\* h still resolves; otherwise the old text is no longer in the zone, and the
\* returned hashid differs from h and get_record(h) fails with KeyError
\* provided no record text of the zone after the call has the checksum h.
C4_Updated ==
    (last.op = "update_record" /\ last.err = "") =>
        LET old == get_record(last.pre, last.hashid)
        IN  /\ old # NoRecord
            /\ record_text(last.rec) \in Texts(zone)
            /\ record_text(last.rec) = record_text(old) =>
                   /\ last.rec.hashid = last.hashid
                   /\ Resolves(zone, last.hashid)
            /\ record_text(last.rec) # record_text(old) =>
                   /\ record_text(old) \notin Texts(zone)
                   /\ ~Collides(zone, last.hashid, record_text(old)) =>
                          /\ last.rec.hashid # last.hashid
                          /\ ~Resolves(zone, last.hashid)

\* C4 witness: the content of a record was updated to another content in a
\* zone without colliding records; the old hashid is stale.
C4_Witness ==
    /\ last.op = "update_record" /\ last.err = ""
    /\ NoCollision(last.pre) /\ NoCollision(zone)
    /\ content_of(last.rec) # content_of(get_record(last.pre, last.hashid))
    /\ last.rec.hashid # last.hashid
    /\ ~Resolves(zone, last.hashid)
    /\ Resolves(zone, last.rec.hashid)

\* C5: after update_record(r.hashid, c) returned, the returned record has the
\* name, the type and the TTL of r and the canonical form of c as content,
\* whatever the TTL of r's record-set and the zone's default TTL.
C5_SameNameTypeTtl ==
    (last.op = "update_record" /\ last.err = "") =>
        LET r == get_record(last.pre, last.hashid)
        IN  /\ last.rec.name = r.name
            /\ last.rec.rdtype = r.rdtype
            /\ content_of(last.rec) = rdata_to_text(rdata_from_text(r.rdtype, last.content))
            /\ last.rec.ttl = r.ttl

\* C6: after rec = add_record(name, rdtype, content, ttl) returned,
\* get_record(rec.hashid) succeeds and returns a record of the relativized
\* name, of type rdtype, of the canonical form of content, and of the given
\* ttl (the zone's default TTL when ttl is omitted).
C6_AddThenGet ==
    (last.op = "add_record" /\ last.err = "") =>
        LET g == get_record(zone, last.rec.hashid)
        IN  /\ g # NoRecord
            /\ g.name = relativize(last.name)
            /\ g.rdtype = Upper(last.rdtype)
            /\ content_of(g) =
                   rdata_to_text(rdata_from_text(Upper(last.rdtype), last.content))
            /\ g.ttl = IF last.ttl = None THEN ttl ELSE last.ttl

\* C7: after save(autoserial=True) returned, the SOA serial is the candidate
\* the clock gave when that candidate is greater than the serial before the
\* save, and the serial before the save plus one otherwise; in both cases it
\* is greater than the serial before the save.
C7_NextSerial ==
    (last.op = "save" /\ last.autoserial /\ last.err = "") =>
        LET before == serial(soa(last.pre).rdata)
            after == serial(soa(zone).rdata)
        IN  /\ soa(zone) # NoRecord
            /\ after = IF last.candidate > before THEN last.candidate ELSE before + 1
            /\ after > before

\* the latest call was given SOA content, or a hashid that resolved to the
\* SOA record
TargetsSoa ==
    \/ last.op = "add_record" /\ Upper(last.rdtype) = "SOA"
    \/ /\ last.op \in {"remove_record", "update_record"}
       /\ get_record(last.pre, last.hashid).rdtype = "SOA"

\* C8 as stated: whatever the call (add_record, remove_record, update_record,
\* save with either autoserial, the clock reading any date), the SOA serial
\* after the call is not less than the SOA serial before it.
C8_AsStated ==
    (soa(last.pre) # NoRecord /\ soa(zone) # NoRecord) =>
        serial(soa(zone).rdata) >= serial(soa(last.pre).rdata)

\* C8 amended: save never lowers the SOA serial, whatever the clock reads, and
\* save(autoserial=False) leaves it as it is; get_record, and the add_record,
\* remove_record and update_record calls that are not given SOA content or a
\* hashid that resolves to the SOA record, leave it as it is.
C8_Monotone ==
    \A before \in {soa(last.pre)}, after \in {soa(zone)} :
        (before # NoRecord) =>
            /\ last.op = "save" =>
                   /\ after # NoRecord
                   /\ serial(after.rdata) >= serial(before.rdata)
                   /\ ~last.autoserial => serial(after.rdata) = serial(before.rdata)
            /\ (last.op \in {"get_record", "add_record", "remove_record", "update_record"}
                    /\ ~TargetsSoa) =>
                   /\ after # NoRecord
                   /\ serial(after.rdata) = serial(before.rdata)

\* C8 witness: a save whose clock reads a day before the day of the serial
\* raised the serial by one.
C8_Witness ==
    /\ last.op = "save" /\ last.autoserial /\ last.err = ""
    /\ last.candidate < serial(soa(last.pre).rdata)
    /\ serial(soa(zone).rdata) = serial(soa(last.pre).rdata) + 1

\* C9 as stated: after save(autoserial=True) returned, the hashid h the SOA
\* record had before the save no longer resolves, and the SOA record has and
\* resolves under another hashid, whether record-data is mutable or not.
C9_AsStated ==
    (last.op = "save" /\ last.autoserial /\ last.err = "") =>
        /\ ~Resolves(zone, soa(last.pre).hashid)
        /\ soa(zone).hashid # soa(last.pre).hashid
        /\ Resolves(zone, soa(zone).hashid)

\* C9 amended: after save(autoserial=True) returned, provided no record of the
\* zone before the save and no record of the zone after it has a text other
\* than the old text of the SOA record with the checksum h of that text: h no
\* longer resolves, the old text is gone, and the SOA record has and resolves
\* under another hashid, the checksum of its new text, whether record-data is
\* mutable or not.
C9_Stale ==
    (/\ last.op = "save" /\ last.autoserial /\ last.err = ""
     /\ ~Collides(last.pre, soa(last.pre).hashid, record_text(soa(last.pre)))
     /\ ~Collides(zone, soa(last.pre).hashid, record_text(soa(last.pre)))) =>
        /\ ~Resolves(zone, soa(last.pre).hashid)
        /\ record_text(soa(last.pre)) \notin Texts(zone)
        /\ soa(zone).hashid # soa(last.pre).hashid
        /\ soa(zone).hashid = checksum(record_text(soa(zone)), 32)
        /\ Resolves(zone, soa(zone).hashid)

\* C9 witness: a save replaced the immutable SOA record-data of a zone
\* without colliding records, and the old hashid of the SOA record is stale.
C9_Witness ==
    /\ last.op = "save" /\ last.autoserial /\ last.err = "" /\ ~mutable
    /\ NoCollision(last.pre) /\ NoCollision(zone)
    /\ ~Resolves(zone, soa(last.pre).hashid)
    /\ get_record(zone, soa(zone).hashid).rdtype = "SOA"
    /\ serial(soa(zone).rdata) > serial(soa(last.pre).rdata)

\* C10: when no record of the zone has hashid h, get_record(h),
\* remove_record(h) and update_record(h, c) each fail with KeyError and leave
\* the zone's nodes, record-sets and records as they were.
C10_NotFound ==
    (/\ last.op \in {"get_record", "remove_record", "update_record"}
     /\ \A rs \in {records(last.pre)} :
            \A i \in 1..Len(rs) : rs[i].hashid # last.hashid) =>
        /\ last.err = "KeyError"
        /\ last.rec = NoRecord
        /\ zone = last.pre

\* C10 witness: update_record was called with a hashid of no record, after a
\* call that changed the zone, and failed with KeyError.
C10_Witness ==
    /\ nops = 2
    /\ last.op = "update_record"
    /\ last.hashid = DEADBEEF
    /\ last.err = "KeyError"
    /\ zone = last.pre
    /\ zone \notin LoadedZones

\* C11: when update_record(h, c) failed because c cannot be parsed into
\* record-data, the record h resolved to is still in the zone and
\* get_record(h) still succeeds.
C11_NoPartialMutation ==
    (last.op = "update_record" /\ last.err = "SyntaxError") =>
        /\ record_text(get_record(last.pre, last.hashid)) \in Texts(zone)
        /\ Resolves(zone, last.hashid)

\* C12: manage() calls zone.save() exactly once when the body is left and
\* autosave is set, whether the body returned or raised, after the calls the
\* body made, so that the file holds the zone they left; it never calls it
\* when autosave is not set, nor inside the body, nor when load() raised.
C12_SaveOnExit ==
    /\ scope \in {"with", "failed"} => saves = 0
    /\ scope \in {"returned", "raised"} => saves = (IF autosave THEN 1 ELSE 0)
    /\ (scope \in {"returned", "raised"} /\ autosave /\ soa(zone) # NoRecord) =>
           file = to_file(zone)
    /\ scope = "failed" => zone = <<>> /\ file = <<>>

\* C12 witness: the body added a record, then let the KeyError of a call
\* escape; manage() saved once and the file holds the added record.
C12_Witness ==
    /\ scope = "raised" /\ autosave /\ saves = 1
    /\ nops = 2 /\ last.err = "KeyError"
    /\ NodeIndex(zone, NAME_B) # 0
    /\ \E i \in 1..Len(file) : file[i] = to_text(NAME_B, 300, TxtRdata(TXT1))

\* C13: in every state reached from a loaded zone by add_record,
\* remove_record, update_record and save, the apex node holds exactly one SOA
\* record and the soa accessor returns it.
C13_SoaPresent ==
    LET ni == NodeIndex(zone, AT)
    IN  /\ ni # 0
        /\ RdsIndex(zone[ni], "SOA") # 0
        /\ Len(zone[ni].rdatasets[RdsIndex(zone[ni], "SOA")].items) = 1
        /\ soa(zone) # NoRecord
        /\ soa(zone).name = AT
        /\ soa(zone).rdata = zone[ni].rdatasets[RdsIndex(zone[ni], "SOA")].items[1]

\* the text of a string of hexadecimal digits
CS16 == <<99, 56, 102, 48>>

CS32 == <<102, 48, 52, 102, 99, 55, 50, 57>>

CS64 == <<99, 56, 99, 54, 99, 53, 50, 55, 54, 52, 54, 51, 54, 50, 99, 54>>

\* C14: checksum("abcde", 16) = "c8f0", checksum("abcde", 32) = "f04fc729",
\* checksum("abcde", 64) = "c8c6c527646362c6", and checksum raises ValueError
\* for every size outside {16, 32, 64}, whatever the word, and returns for
\* the sizes inside.
C14_Vectors ==
    (scope = "util" /\ nops = 1) =>
        /\ (last.content = WORD /\ last.size = 16) => last.hashid = CS16
        /\ (last.content = WORD /\ last.size = 32) => last.hashid = CS32
        /\ (last.content = WORD /\ last.size = 64) => last.hashid = CS64
        /\ last.size \notin {16, 32, 64} => last.err = "ValueError" /\ last.hashid = <<>>
        /\ last.size \in {16, 32, 64} => last.err = "" /\ last.hashid # <<>>

\* C14 witness: checksum("abcde", 64) returned "c8c6c527646362c6".
C14_Witness ==
    /\ scope = "util" /\ nops = 1
    /\ last.content = WORD /\ last.size = 64
    /\ last.err = "" /\ last.hashid = CS64


\* C15: for each size in {16, 32, 64} every word, the empty one and the ones
\* shorter than a block included, gives a digest of one length, the length of
\* the digest of "abcde" for that size, and of at least 4 characters.
C15_FixedWidth ==
    (scope = "util" /\ nops = 1 /\ last.size \in {16, 32, 64}) =>
        /\ Len(last.hashid) = Len(checksum(WORD, last.size))
        /\ Len(last.hashid) >= 4


\* C16 as stated: find_record returns the records of get_records(rdtype), in
\* that order, whose name is the relativized name when a name is given and
\* whose content is the content given when a content is given.
C16_AsStated ==
    last.op = "find_record" =>
        LET Wanted(r) ==
                /\ last.name # <<>> => r.name = relativize(last.name)
                /\ last.content # <<>> => content_of(r) = last.content
        IN  last.found = SelectSeq(get_records(last.pre, last.rdtype), Wanted)

\* C16: find_record returns the records of get_records(rdtype), in that
\* order, whose name is the relativized name when a non-empty name is given
\* and whose content is the non-empty content given, for rdtype TXT the
\* content given wrapped in double quotes; with neither, all of
\* get_records(rdtype); the empty list when a name or content matches none.
C16_Filter ==
    last.op = "find_record" =>
        LET quoted == IF Upper(last.rdtype) = "TXT"
                      THEN QUOTE \o last.content \o QUOTE ELSE last.content
            Wanted(r) ==
                /\ last.name # <<>> => r.name = relativize(last.name)
                /\ last.content # <<>> => content_of(r) = quoted
            all == get_records(last.pre, last.rdtype)
        IN  /\ last.found = SelectSeq(all, Wanted)
            /\ (last.name = <<>> /\ last.content = <<>>) => last.found = all
            /\ (\A i \in 1..Len(all) : ~Wanted(all[i])) => last.found = <<>>

\* C16 witness: find_record("txt", "a.example.com.", "abcdef") on a zone with
\* several TXT records found the one record "a" with content "abcdef" quoted.
C16_Witness ==
    /\ last.op = "find_record"
    /\ last.rdtype = "txt" /\ last.name = A_ABS /\ last.content = TXT1
    /\ Len(get_records(last.pre, "txt")) > 1
    /\ Len(last.found) = 1
    /\ last.found[1].name = NAME_A /\ content_of(last.found[1]) = TXT1Q


\* C17: after save(autoserial=True) returned, the text written is the text of
\* the zone after the serial step: it holds the SOA record with a serial
\* greater than the serial before the save, and the text of every other
\* record the zone held when save was called.
C17_BumpThenWrite ==
    (last.op = "save" /\ last.autoserial /\ last.err = "") =>
        LET before == records(last.pre)
        IN  /\ file = to_file(zone)
            /\ soa(zone) # NoRecord
            /\ serial(soa(zone).rdata) > serial(soa(last.pre).rdata)
            /\ \E i \in 1..Len(file) : file[i] = record_text(soa(zone))
            /\ \A j \in 1..Len(before) :
                   before[j].rdtype # "SOA" =>
                       \E i \in 1..Len(file) : file[i] = record_text(before[j])


\* C18: after remove_record(h, cascade=False) returned, the zone is the zone
\* before the call with the record-data of the record found taken out of its
\* record-set: the nodes and the record-sets are the same ones, the record-set
\* is kept even when it is left empty, and the records read are the records
\* read before without that one, each with its text and hashid.
C18_OnlyTheRecord ==
    (last.op = "remove_record" /\ ~last.cascade /\ last.err = "") =>
        LET r == last.rec
            items == last.pre[r.node].rdatasets[r.rdataset].items
            before == records(last.pre)
        IN  /\ \E k \in 1..Len(items) :
                   /\ items[k] = r.rdata
                   /\ zone = [last.pre EXCEPT
                                 ![r.node].rdatasets[r.rdataset].items = RemoveAt(@, k)]
            /\ \E j \in 1..Len(before) :
                   /\ before[j].hashid = last.hashid
                   /\ \A i \in 1..(j - 1) : before[i].hashid # last.hashid
                   /\ records(zone) = RemoveAt(before, j)

\* C18 witness: the only record of a record-set was removed without cascade,
\* and its node still holds the record-set, now empty.
C18_Witness ==
    /\ last.op = "remove_record" /\ ~last.cascade /\ last.err = ""
    /\ Len(last.pre[last.rec.node].rdatasets[last.rec.rdataset].items) = 1
    /\ NodeIndex(zone, last.rec.name) # 0
    /\ RdsIndex(zone[NodeIndex(zone, last.rec.name)], last.rec.rdtype) # 0
    /\ zone[last.rec.node].rdatasets[last.rec.rdataset].items = <<>>


\* every node of z holds a record-set and every record-set a record
NoEmptyContainer(z) ==
    \A ni \in 1..Len(z) :
        /\ Len(z[ni].rdatasets) >= 1
        /\ \A si \in 1..Len(z[ni].rdatasets) : Len(z[ni].rdatasets[si].items) >= 1

\* C19: add_record, remove_record(cascade=True) and update_record, returning
\* or raising, take a zone in which every node holds at least one record-set
\* and every record-set at least one record to a zone of that kind.
C19_NoEmptyContainer ==
    (/\ \/ last.op \in {"add_record", "update_record"}
        \/ last.op = "remove_record" /\ last.cascade
     /\ NoEmptyContainer(last.pre)) => NoEmptyContainer(zone)


\* C20: after add_record returned, every record the zone held before the call
\* is still in it with the same text, and every hashid that resolved before
\* the call resolves to a record of the same text, whatever the ttl of the
\* record-set the new record joined.
C20_OthersUntouched ==
    (last.op = "add_record" /\ last.err = "") =>
        LET before == records(last.pre)
        IN  \A i \in 1..Len(before) :
                /\ record_text(before[i]) \in Texts(zone)
                /\ Resolves(zone, before[i].hashid)
                /\ record_text(get_record(zone, before[i].hashid))
                       = record_text(get_record(last.pre, before[i].hashid))


\* C21: save changes no record other than the SOA record: after
\* save(autoserial=True) every record that is no SOA record has the text and
\* the hashid it had, in the same place of the scan, and the SOA record has
\* its name, its TTL and every field but the serial; after
\* save(autoserial=False) the zone is the zone before the call.
C21_SaveFrame ==
    last.op = "save" =>
        LET before == records(last.pre)
            after == records(zone)
        IN  IF ~last.autoserial THEN zone = last.pre
            ELSE /\ Len(after) = Len(before)
                 /\ \A i \in 1..Len(before) :
                        IF before[i].rdtype # "SOA" THEN after[i] = before[i]
                        ELSE /\ after[i].rdtype = "SOA"
                             /\ after[i].name = before[i].name
                             /\ after[i].ttl = before[i].ttl
                             /\ after[i].rdata =
                                    replace_serial(before[i].rdata, serial(after[i].rdata))


\* C22: when add_record raised because the type is unknown or the content
\* does not parse, the zone is the zone before the call: the call created no
\* node and no record-set.
C22_FailedAddLeavesZone ==
    (last.op = "add_record" /\ last.err \in {"UnknownRdatatype", "SyntaxError"}) =>
        zone = last.pre

\* C22 witness: add_record raised on content that does not parse, for a name
\* the zone has no node of, and the zone still has no node of that name.
C22_Witness ==
    /\ last.op = "add_record" /\ last.err = "SyntaxError"
    /\ NodeIndex(last.pre, relativize(last.name)) = 0
    /\ NodeIndex(zone, relativize(last.name)) = 0
    /\ zone = last.pre


RECURSIVE ReferenceSums(_, _, _, _)
\* Fletcher's sums with a and b reduced after every block
ReferenceSums(blocks, a, b, modulus) ==
    IF blocks = <<>> THEN <<a, b>>
    ELSE ReferenceSums(Tail(blocks),
                       (a + Head(blocks)) % modulus,
                       (b + ((a + Head(blocks)) % modulus)) % modulus,
                       modulus)

\* (x + y) % (2 ** 32 - 1) for x below the modulus and y up to it, of two
\* limbs each: one subtraction of the modulus when the sum reaches it
WideReduce(x, y) ==
    LET s == WideAdd(x \o <<0>>, y \o <<0>>, 0)
        t == WideAdd(s, <<1, 0, 0>>, 0)
    IN  IF t[3] >= 1 THEN <<t[1], t[2]>> ELSE <<s[1], s[2]>>

RECURSIVE WideReferenceSums(_, _, _)
\* the same sums for blocks of 32 bits
WideReferenceSums(blocks, a, b) ==
    IF blocks = <<>> THEN <<a, b>>
    ELSE WideReferenceSums(Tail(blocks),
                           WideReduce(a, Head(blocks)),
                           WideReduce(b, WideReduce(a, Head(blocks))))

\* the reference Fletcher value (b << size/2) | a, in hexadecimal
ReferenceFletcher(word, size) ==
    LET bits == size \div 2
        grouped == group(word, bits \div 8, 0)
    IN  IF size = 64
        THEN LET blocks == [i \in 1..Len(grouped) |->
                               <<pack(SubSeq(grouped[i], 1, 2)),
                                 pack(SubSeq(grouped[i], 3, 4))>>]
                 ab == WideReferenceSums(blocks, <<0, 0>>, <<0, 0>>)
             IN  ZFill(WideHexJoin(ab[2], ab[1]), 4)
        ELSE LET blocks == [i \in 1..Len(grouped) |-> pack(grouped[i])]
                 ab == ReferenceSums(blocks, 0, 0, 2 ^ bits - 1)
             IN  ZFill(HexJoin(ab[2], ab[1], bits), 4)

\* C23: for every word over the alphabet up to the longest length and every
\* size in {16, 32, 64}, the digest checksum returns, its sums reduced once
\* after the loop, is the reference Fletcher value, whose sums are reduced
\* after every block.
C23_EqualsReference ==
    (scope = "util" /\ nops = 1 /\ last.size \in {16, 32, 64}) =>
        last.hashid = ReferenceFletcher(last.content, last.size)

\* C23 witness: checksum of five bytes 255 at size 64, where both sums pass
\* the modulus before the reduction, returned "ff000000ff".
C23_Witness ==
    /\ scope = "util" /\ nops = 1
    /\ last.size = 64 /\ last.content = <<255, 255, 255, 255, 255>>
    /\ WideSums(<<<<65535, 65535>>, <<255, 0>>>>,
                <<0, 0, 0, 0>>, <<0, 0, 0, 0>>)[1][3] > 0
    /\ last.hashid = <<102, 102, 48, 48, 48, 48, 48, 48, 102, 102>>
    /\ last.hashid = ReferenceFletcher(last.content, 64)

====
